---- MODULE Spec2Model ----
(***************************************************************************)
(* A model of bingo.py: drawing bingo sheets from a pool of statements    *)
(* (create_sheet, create_sheets), the duplicate check (check_uniqueness), *)
(* the retry loop of main, and the page layout of create_pdf.             *)
(*                                                                         *)
(* A statement is modelled by the position it had in the pool when the    *)
(* data was loaded (1..n); Text(s) is the string stored there and         *)
(* Lines(s) the number of lines the canvas needs to print it in a cell.   *)
(* Lengths on the page are Python floats; they are modelled as exact      *)
(* fractions [num, den] in lowest terms.                                  *)
(***************************************************************************)
EXTENDS Integers, Sequences, FiniteSets, TLC

\* ------------------------------------------------------------------ bounds
\* main fixes size = 4 and max_tries = 10 and reads the amount from the user;
\* create_sheet and create_sheets take them as parameters.  The model draws
\* them from these ranges.  MaxPdfSheets bounds the batches handed to
\* create_pdf on its own.
MaxSize == 2
MaxAmount == 2
MaxTries == 2
MaxPdfSheets == 4

\* ------------------------------------------------------- the loaded data
\* The string held by the statement loaded at pool position s.  The input
\* list is not required to be free of repetitions: positions 1 and 3 hold
\* the same string.
Text(s) == IF s = 3 THEN 1 ELSE s

\* Number of lines the canvas breaks statement s into inside a grid cell:
\* the statement loaded at position 2 is too long for one line.
Lines(s) == IF s = 2 THEN 2 ELSE 1

\* The lengths of the loaded list: empty, and for each size shorter than,
\* equal to or longer than size * size as far as the shuffles stay countable.
PoolSizes == {0, 1, 3, 4}

\* load_json: the dict read from entries.json, with n statements.
load_json(n) == [title |-> "title", header |-> "header", statements |-> [k \in 1..n |-> k]]

\* ------------------------------------------------------------ create_sheet
\* All orders random.shuffle can leave a list in.
Shuffles(s) ==
    LET n == Len(s)
        Bij == { p \in [1..n -> 1..n] : \A x \in 1..n : \E y \in 1..n : p[y] = x }
    IN  { [k \in 1..n |-> s[p[k]]] : p \in Bij }

\* The mutated guard: also rejects a pool that holds exactly size*size statements.
NotEnoughOffByOne(statements, amount) == Len(statements) <= amount

\* if len(statements) < amount
NotEnough(statements, amount) == Len(statements) < amount

\* The ValueError raised for a pool that is too small; its message names the
\* number needed and the number available.
ValueError(statements, amount) ==
    [type |-> "ValueError", need |-> amount, have |-> Len(statements)]

NoError == [type |-> "none", need |-> 0, have |-> 0]
IndexError == [type |-> "IndexError", need |-> 0, have |-> 0]

\* statements[:amount]
Take(statements, amount) ==
    SubSeq(statements, 1, IF amount < Len(statements) THEN amount ELSE Len(statements))

\* The mutated grid: every row is filled from the start of the selection.
GridRowsRestart(sel, size) ==
    [i \in 1..size |-> [j \in 1..size |-> sel[j]]]

\* The nested loops: row i (0-based), column j holds statements[i * size + j].
Grid(sel, size) ==
    [i \in 1..size |-> [j \in 1..size |-> sel[(i - 1) * size + (j - 1) + 1]]]

\* The dict create_sheet returns for the shuffled list.
Sheet(data, shuffled, size) ==
    [header |-> data.header, title |-> data.title,
     statements |-> Grid(Take(shuffled, size * size), size)]

\* --------------------------------------------------------- check_uniqueness
\* [statement for row in sheet["statements"] for statement in row]
RECURSIVE FlattenRows(_)
FlattenRows(rows) ==
    IF Len(rows) = 0 THEN << >> ELSE Head(rows) \o FlattenRows(Tail(rows))

\* The strings of a sheet in row-major order.
Flat(sheet) ==
    LET f == FlattenRows(sheet.statements) IN [k \in 1..Len(f) |-> Text(f[k])]

\* The mutated check: two sheets count as equal when they hold the same strings.
check_uniqueness_as_sets(batch) ==
    IF Len(batch) < 2 THEN TRUE
    ELSE ~ \E i \in 1..Len(batch) : \E j \in (i + 1)..Len(batch) :
            {Flat(batch[i])[k] : k \in 1..Len(Flat(batch[i]))}
              = {Flat(batch[j])[k] : k \in 1..Len(Flat(batch[j]))}

\* False as soon as some pair i < j has equal flattened lists.
check_uniqueness(batch) ==
    IF Len(batch) < 2 THEN TRUE
    ELSE ~ \E i \in 1..Len(batch) : \E j \in (i + 1)..Len(batch) :
            Flat(batch[i]) = Flat(batch[j])

\* ------------------------------------------------------- lengths on the page
RECURSIVE GCD(_, _)
GCD(a, b) == IF b = 0 THEN a ELSE GCD(b, a % b)

Abs(n) == IF n < 0 THEN -n ELSE n

\* The fraction n / d (d > 0) in lowest terms.
Rat(n, d) == LET g == GCD(Abs(n), d) IN [num |-> n \div g, den |-> d \div g]

RatAdd(a, b) == Rat(a.num * b.den + b.num * a.den, a.den * b.den)

RatSub(a, b) == Rat(a.num * b.den - b.num * a.den, a.den * b.den)

RatMul(k, a) == Rat(k * a.num, a.den)

\* int(np.sqrt(n))
ISqrt(n) == CHOOSE r \in 0..n : r * r <= n /\ (r + 1) * (r + 1) > n

\* -------------------------------------------------------------- create_pdf
WidthBudget == 95
HeightBudget == 40
TitleCellHeight == 10
HeaderCellHeight == 10
TopMargin == 10
SheetGap == 5
statement_font_size == 6

\* grid_size = int(np.sqrt(len(sheets[0]["statements"])))
GridSize(batch) == ISqrt(Len(batch[1].statements))

\* cell_width = 95 / grid_size
CellWidth(batch) == Rat(WidthBudget, GridSize(batch))

\* cell_height = 40 / grid_size
CellHeight(batch) == Rat(HeightBudget, GridSize(batch))

\* pdf.font_size for the statements: 6 pt in millimetres (25.4 / 72 mm per pt).
LineHeight == Rat(statement_font_size * 254, 720)

\* The height of the last piece multi_cell prints for statement s in a cell of
\* height h with max_line_height = pdf.font_size: a statement of one line
\* fills the cell; a wrapped one prints its lines and then the blank rest of
\* the cell.  (Cells are much higher than the lines of the statements here.)
LastCellHeight(s, h) ==
    IF Lines(s) = 1 THEN h ELSE RatSub(h, RatMul(Lines(s), LineHeight))

\* The cursor after the rows of a grid drawn from y: the cells of a row leave
\* the cursor at the top of the row (new_y = TOP), and pdf.ln() moves it down
\* by the height of the last piece printed.
RECURSIVE GridBottom(_, _, _)
GridBottom(rows, y, h) ==
    IF Len(rows) = 0 THEN y
    ELSE GridBottom(Tail(rows), RatAdd(y, LastCellHeight(Head(rows)[Len(Head(rows))], h)), h)

\* The mutated capture: the heights are taken from the first sheet of every page.
IsTemplatePerPage(k) == k % 2 = 0

\* if i == 0: the sheet whose cursor positions are captured.
IsTemplate(k) == k = 0

\* if (i + 1) % 2 == 0: pdf.add_page()
PageBreakAfter(k) == (k + 1) % 2 = 0

\* ------------------------------------------------------------------- main
\* The mutated loop: a passing batch ends the loop only on the last attempt.
LoopExitNoBreak(unique, tries, limit) ==
    IF tries = limit - 1 THEN (IF unique THEN "break" ELSE "return") ELSE "again"

\* What the body of the for loop does after check_uniqueness: break on a
\* unique batch, return after the last attempt, otherwise go round again.
LoopExit(unique, tries, limit) ==
    IF unique THEN "break" ELSE IF tries = limit - 1 THEN "return" ELSE "again"

VARIABLES
    data,          \* the dict loaded from entries.json
    size,          \* side length of a sheet
    amount,        \* number of sheets asked for
    max_tries,     \* retry budget
    pc,            \* where main is
    attempt,       \* the loop variable _ of main
    building,      \* the list create_sheets is filling
    sheets,        \* main's sheets: the batch main goes on with (a rejected
                   \* batch is never read once the next attempt starts and
                   \* is left out of the state from there on)
    error,         \* the exception that ended main, if any
    stdout,        \* the messages printed by main
    file,          \* what pdf.output wrote
    draws,         \* number of create_sheet calls that returned a sheet
    generated,     \* number of batches create_sheets has returned
    passedAt,      \* value of generated when a batch passed the check, else 0
    lastSheet,     \* outcome of the last create_sheet call
    checked,       \* outcome of the last check_uniqueness call
    i,             \* the loop index of create_pdf
    pdf,           \* the canvas: cursor height and number of pages
    cell_width, cell_height,
    title_height, header_height, grid_height,
    starts,        \* the cursor height at which each sheet was started
    marks,         \* the cursor after title, header and grid of each sheet
    breakAfter,    \* indices of the sheets followed by pdf.add_page()
    drawn          \* the [w, h] every grid cell was drawn with

genVars == << data, size, amount, max_tries, attempt, building, sheets, draws,
              generated, passedAt, lastSheet, checked >>
pdfVars == << i, pdf, cell_width, cell_height, title_height, header_height,
              grid_height, starts, marks, breakAfter, drawn >>
vars == << genVars, pdfVars, pc, error, stdout, file >>

Zero == Rat(0, 1)
NoFile == [written |-> FALSE, sheets |-> << >>]
NoSheet == [called |-> FALSE, raised |-> FALSE, have |-> 0, grid |-> << >>]
NotChecked == [called |-> FALSE, result |-> TRUE]

PdfIdle ==
    /\ i = 0
    /\ pdf = [y |-> Zero, pages |-> 0]
    /\ cell_width = Zero /\ cell_height = Zero
    /\ title_height = Zero /\ header_height = Zero /\ grid_height = Zero
    /\ starts = << >> /\ marks = << >> /\ breakAfter = {} /\ drawn = {}

\* main up to the first call of create_sheets.
Init ==
    /\ \E n \in PoolSizes : data = load_json(n)
    /\ size \in 1..MaxSize
    /\ amount \in 0..MaxAmount
    /\ max_tries \in 1..MaxTries
    /\ pc = "create_sheets"
    /\ attempt = 0
    /\ building = << >>
    /\ sheets = << >>
    /\ error = NoError
    /\ stdout = {}
    /\ file = NoFile
    /\ draws = 0 /\ generated = 0 /\ passedAt = 0
    /\ lastSheet = NoSheet
    /\ checked = NotChecked
    /\ PdfIdle

\* The mutated create_sheets: the first sheet of the rejected batch is kept.
BatchStartKeepFirst == Take(building, 1)

\* sheets = [] at the start of create_sheets.
BatchStart == << >>

\* One round of the loop of create_sheets: sheets.append(create_sheet(data, size)).
\* create_sheet raises for a pool that is too small, else shuffles the list of
\* the dict in place and builds the sheet from its first size * size entries.
CreateSheet ==
    /\ pc = "create_sheets"
    /\ Len(building) < amount
    /\ IF NotEnough(data.statements, size * size)
       THEN /\ error' = ValueError(data.statements, size * size)
            /\ pc' = "done"
            /\ lastSheet' = [called |-> TRUE, raised |-> TRUE,
                             have |-> Len(data.statements), grid |-> << >>]
            /\ UNCHANGED << data, building, draws >>
       ELSE \E shuffled \in Shuffles(data.statements) :
            /\ data' = [data EXCEPT !.statements = shuffled]
            /\ building' = Append(building, Sheet(data, shuffled, size))
            /\ draws' = draws + 1
            /\ lastSheet' = [called |-> TRUE, raised |-> FALSE,
                             have |-> Len(data.statements),
                             grid |-> Sheet(data, shuffled, size).statements]
            /\ UNCHANGED << error, pc >>
    /\ UNCHANGED << size, amount, max_tries, attempt, sheets, generated, passedAt,
                    checked, stdout, file, pdfVars >>

\* create_sheets returns and main checks the batch: break, retry or give up.
CheckBatch ==
    /\ pc = "create_sheets"
    /\ Len(building) >= amount
    /\ generated' = generated + 1
    /\ LET unique == check_uniqueness(building)
           exit == LoopExit(unique, attempt, max_tries)
       IN  /\ checked' = [called |-> TRUE, result |-> unique]
           /\ passedAt' = IF unique /\ passedAt = 0 THEN generated + 1 ELSE passedAt
           /\ stdout' = stdout
                  \cup (IF unique THEN {} ELSE {"not unique"})
                  \cup (IF exit = "return" THEN {"failed, saving last attempt"} ELSE {})
           /\ pc' = CASE exit = "break" -> "create_pdf"
                      [] exit = "return" -> "done"
                      [] OTHER -> "create_sheets"
           /\ attempt' = IF exit = "again" THEN attempt + 1 ELSE attempt
           /\ building' = IF exit = "again" THEN BatchStart ELSE building
           /\ sheets' = IF exit = "again" THEN << >> ELSE building
    /\ UNCHANGED << data, size, amount, max_tries, draws, lastSheet, error, file, pdfVars >>

\* create_pdf up to its loop: the first page, the cell sizes, the heights.
CreatePdfStart ==
    /\ pc = "create_pdf"
    /\ IF Len(sheets) = 0
       THEN /\ error' = IndexError
            /\ pc' = "done"
            /\ UNCHANGED pdfVars
       ELSE /\ pdf' = [y |-> Rat(TopMargin, 1), pages |-> 1]
            /\ cell_width' = CellWidth(sheets)
            /\ cell_height' = CellHeight(sheets)
            /\ title_height' = Zero
            /\ header_height' = Zero
            /\ grid_height' = RatAdd(RatMul(GridSize(sheets), CellHeight(sheets)), Rat(10, 1))
            /\ i' = 0
            /\ pc' = "render"
            /\ UNCHANGED << error, starts, marks, breakAfter, drawn >>
    /\ UNCHANGED << genVars, stdout, file >>

\* One round of the loop of create_pdf: title, header, grid, then the cursor
\* is set for the next sheet and a page is added after every second sheet.
RenderSheet ==
    /\ pc = "render"
    /\ i < Len(sheets)
    /\ LET sheet == sheets[i + 1]
           y1 == RatAdd(pdf.y, Rat(TitleCellHeight, 1))
           th == IF IsTemplate(i) THEN y1 ELSE title_height
           y2 == RatAdd(y1, Rat(HeaderCellHeight, 1))
           hh == IF IsTemplate(i) THEN y2 ELSE header_height
           y3 == GridBottom(sheet.statements, y2, cell_height)
           gh == IF IsTemplate(i) THEN y3 ELSE grid_height
           next == RatAdd(RatAdd(RatAdd(th, hh), gh), Rat(SheetGap, 1))
       IN  /\ title_height' = th
           /\ header_height' = hh
           /\ grid_height' = gh
           /\ starts' = Append(starts, pdf.y)
           /\ marks' = Append(marks, [title |-> y1, header |-> y2, grid |-> y3])
           /\ drawn' = drawn \cup {[w |-> cell_width, h |-> cell_height]}
           /\ IF PageBreakAfter(i)
              THEN /\ pdf' = [y |-> Rat(TopMargin, 1), pages |-> pdf.pages + 1]
                   /\ breakAfter' = breakAfter \cup {i}
              ELSE /\ pdf' = [pdf EXCEPT !.y = next]
                   /\ UNCHANGED breakAfter
    /\ i' = i + 1
    /\ UNCHANGED << genVars, cell_width, cell_height, pc, error, stdout, file >>

\* pdf.output(filename) and the message of main.
Output ==
    /\ pc = "render"
    /\ i = Len(sheets)
    /\ file' = [written |-> TRUE, sheets |-> sheets]
    /\ stdout' = stdout \cup {"saved"}
    /\ pc' = "done"
    /\ UNCHANGED << genVars, pdfVars, error >>

Next == CreateSheet \/ CheckBatch \/ CreatePdfStart \/ RenderSheet \/ Output

Spec == Init /\ [][Next]_vars

\* ------------------------------------------------ create_pdf on its own
\* The list s turned left by r places: one of the orders a shuffle can give.
Rot(s, r) == [k \in 1..Len(s) |-> s[((k - 1 + r) % Len(s)) + 1]]

\* main at the call of create_pdf, with a batch of up to MaxPdfSheets sheets
\* that create_sheets drew and check_uniqueness accepted at the first attempt.
InitPdf ==
    /\ \E n \in PoolSizes \ {0} : \E sz \in 1..MaxSize : \E m \in 0..MaxPdfSheets :
         /\ sz * sz <= n
         /\ \E rs \in [1..m -> 0..(n - 1)] :
              LET d0 == load_json(n)
                  batch == [k \in 1..m |-> Sheet(d0, Rot(d0.statements, rs[k]), sz)]
              IN  /\ check_uniqueness(batch)
                  /\ data = [d0 EXCEPT !.statements =
                                IF m = 0 THEN d0.statements ELSE Rot(d0.statements, rs[m])]
                  /\ size = sz
                  /\ amount = m
                  /\ building = batch
                  /\ sheets = batch
                  /\ draws = m
                  /\ lastSheet = IF m = 0 THEN NoSheet
                                 ELSE [called |-> TRUE, raised |-> FALSE, have |-> n,
                                       grid |-> batch[m].statements]
    /\ max_tries = 1
    /\ pc = "create_pdf"
    /\ attempt = 0
    /\ error = NoError
    /\ stdout = {}
    /\ file = NoFile
    /\ generated = 1 /\ passedAt = 1
    /\ checked = [called |-> TRUE, result |-> TRUE]
    /\ PdfIdle

NextPdf == CreatePdfStart \/ RenderSheet \/ Output

SpecPdf == InitPdf /\ [][NextPdf]_vars

\* ================================================================ properties
\* The pool positions held by the cells of a grid.
Cells(grid) == { grid[r][c] : r \in 1..Len(grid), c \in 1..Len(grid) }

\* C1: a sheet returned by create_sheet has size rows of size cells each, every
\* cell holds a statement of the pool, and no pool position fills two cells.
C1_SheetIsDistinctSelection ==
    (lastSheet.called /\ ~lastSheet.raised) =>
        /\ Len(lastSheet.grid) = size
        /\ \A r \in 1..size : Len(lastSheet.grid[r]) = size
        /\ Cells(lastSheet.grid) \subseteq 1..Len(data.statements)
        /\ \A r1, r2 \in 1..size : \A c1, c2 \in 1..size :
              lastSheet.grid[r1][c1] = lastSheet.grid[r2][c2] => (r1 = r2 /\ c1 = c2)

\* A sheet of side 2 has been drawn.
C1_Witness ==
    lastSheet.called /\ ~lastSheet.raised /\ size = 2 /\ Len(lastSheet.grid) = 2

\* C2: create_sheet raises exactly when the pool holds fewer than size*size
\* statements; the error names size*size and the length of the pool, and no
\* sheet is returned.
C2_ErrorIffTooFew ==
    lastSheet.called =>
        /\ lastSheet.raised <=> (lastSheet.have < size * size)
        /\ lastSheet.raised =>
              /\ error.type = "ValueError"
              /\ error.need = size * size
              /\ error.have = Len(data.statements)
              /\ lastSheet.grid = << >>
              /\ building = << >>
              /\ pc = "done"
        /\ ~lastSheet.raised => error.type # "ValueError"

\* create_sheet has raised for a pool of 3 statements and a sheet of side 2.
C2_Witness ==
    lastSheet.called /\ lastSheet.raised /\ size = 2 /\ lastSheet.have = 3

\* C3: the list of the pool is never changed: it is the list that was loaded.
C3_PoolUnchanged == data = load_json(Len(data.statements))

\* Two sheets hold the same string in every cell.
SamePositions(a, b) ==
    \A r \in 1..size : \A c \in 1..size :
        Text(a.statements[r][c]) = Text(b.statements[r][c])

\* Two sheets hold the same strings, in whatever cells.
SameStrings(a, b) ==
    { Text(x) : x \in Cells(a.statements) } = { Text(x) : x \in Cells(b.statements) }

\* C4: every call of check_uniqueness (made on the batch create_sheets has
\* just built) answers False exactly when two sheets of the batch at different
\* indices agree in every cell; a batch of fewer than two sheets gets True.
C4_UniquenessIsPositional ==
    [][ generated' = generated + 1 =>
          /\ checked'.called
          /\ checked'.result <=>
                ~ \E a \in 1..Len(building) : \E b \in 1..Len(building) :
                      a < b /\ SamePositions(building[a], building[b])
          /\ Len(building) < 2 => checked'.result ]_vars

\* A batch of two sheets with the same strings in different cells passed.
C4_Witness ==
    /\ checked.called /\ checked.result /\ Len(sheets) = 2 /\ size = 2
    /\ SameStrings(sheets[1], sheets[2])
    /\ ~SamePositions(sheets[1], sheets[2])

\* C5: the loop generates at most max_tries batches and stops at the first
\* batch that passes the check: that batch is the one handed to create_pdf and
\* written, and every batch before it had failed.
C5_LoopBoundedStopsAtFirstPass ==
    /\ generated <= max_tries
    /\ attempt < max_tries
    /\ pc = "create_sheets" => generated = attempt
    /\ passedAt # 0 =>
          /\ generated = passedAt
          /\ pc # "create_sheets"
          /\ checked.called /\ checked.result
          /\ sheets = building
    /\ (pc \in {"create_pdf", "render"} \/ file.written) =>
          /\ passedAt = attempt + 1
          /\ "not unique" \in stdout <=> attempt > 0
    /\ file.written => file.sheets = sheets

\* The second attempt of two passed and its batch was written.
C5_Witness ==
    /\ file.written /\ passedAt = 2 /\ max_tries = 2 /\ amount = 2
    /\ "not unique" \in stdout

\* C6: when the last attempt fails too, its batch is still written to the
\* output document.
C6_LastAttemptSaved ==
    (pc = "done" /\ "failed, saving last attempt" \in stdout) =>
        (file.written /\ file.sheets = sheets)

\* C7: a page is added only between a sheet and its successor, never after the
\* last sheet of the batch.
C7_NoTrailingPageBreak ==
    \A k \in breakAfter : k + 1 < Len(sheets)

\* C8: every grid cell is drawn 95 / size wide and 40 / size high, so that a
\* row of size cells is 95 wide.
C8_CellSizeBySide ==
    \A d \in drawn :
        /\ d.w = Rat(WidthBudget, size)
        /\ d.h = Rat(HeightBudget, size)
        /\ RatMul(size, d.w) = Rat(WidthBudget, 1)

\* C9: every attempt starts from an empty batch and draws each of its sheets
\* anew: the number of draws made is amount for every batch returned plus the
\* sheets of the batch being built.
C9_EveryAttemptDrawsAfresh ==
    error.type # "ValueError" =>
        /\ pc = "create_sheets" => draws = attempt * amount + Len(building)
        /\ pc # "create_sheets" => draws = (attempt + 1) * amount
        /\ draws = generated * amount + (IF pc = "create_sheets" THEN Len(building) ELSE 0)
        /\ pc # "create_sheets" => (checked.called /\ sheets = building /\ Len(sheets) = amount)

\* The second attempt has drawn its two sheets.
C9_Witness ==
    /\ pc = "create_sheets" /\ attempt = 1 /\ amount = 2 /\ Len(building) = 2
    /\ "not unique" \in stdout

\* The height at which the sheet after a sheet with the cursor marks m starts,
\* when the marks are taken as the template.
AfterTemplate(m) == RatAdd(RatAdd(RatAdd(m.title, m.header), m.grid), Rat(SheetGap, 1))

\* C10 as stated: the second sheet of every page starts at the height given by
\* the cursor marks of the first sheet of that page.
C10_TemplateIsFirstSheetOfPage ==
    \A k \in 1..Len(starts) :
        (k - 1) % 2 = 1 => starts[k] = AfterTemplate(marks[k - 1])

\* C10 as the code has it: the cursor marks are captured from the first sheet
\* of the batch only, and the second sheet of every page starts at the height
\* they give.
C10_TemplateIsFirstSheetOfBatch ==
    /\ Len(marks) >= 1 =>
          /\ title_height = marks[1].title
          /\ header_height = marks[1].header
          /\ grid_height = marks[1].grid
    /\ \A k \in 1..Len(starts) :
          (k - 1) % 2 = 1 => starts[k] = AfterTemplate(marks[1])

\* The second sheet of the second page has been drawn, and the first sheet of
\* that page ended at another height than the first sheet of the batch.
C10_Witness ==
    /\ Len(starts) >= 4
    /\ marks[3] # marks[1]

====
